---- MODULE Spec2Model ----
(***************************************************************************)
(* Model of the job-portal scraper's run: one connector's run() coroutine  *)
(* (src/scrapers/*.py) on top of BaseJobScraper (src/base_scraper.py).     *)
(* A run opens a discovery page, collects the links, dispatches one detail *)
(* task per link with asyncio.gather, every task working under the shared  *)
(* asyncio.Semaphore(concurrency), then aggregates and saves.              *)
(* One action is one stretch of code between two await points.             *)
(* Spec is the run from main() to the exit of the process; SpecDiscovery   *)
(* is the listing-page loop of each connector, page by page (SpecDirect    *)
(* when run() is called without main(), SpecDiscoveryFair when every       *)
(* enabled step is eventually taken); SpecSave is the save functions over  *)
(* successive processes sharing data/; SpecTranslate is the translation of *)
(* one record and the cleaning of one field, character by character.       *)
(***************************************************************************)
EXTENDS Integers, Sequences, FiniteSets, TLC

\* ---------------------------------------------------------------- bounds
MaxLinks == 2
MaxConcurrency == 2
MaxIndexPages == 2
MaxPagesArg == 2
MaxFetches == 3
MaxTicks == 3
MaxRuns == 2
MaxHeight == 2
MaxPhrases == 2
MaxChunks == 3

\* ------------------------------------------------------------ connectors
\* The connectors that have a detail phase (a scrape_job_with_semaphore).
Portals == {"meta", "google", "nvidia", "apple", "openai", "netflix", "microsoft"}

\* max_retries of scrape_job_details.
\* (variant: one attempt too many, as from range(max_retries + 1))
NvidiaMaxRetries_mut == 3 + 1
NvidiaMaxRetries == 3
AppleMaxRetries == 2

\* A connector without a retry loop makes a single attempt inside one
\* try/except that returns None.
max_retries(p) ==
    CASE p = "nvidia" -> NvidiaMaxRetries
      [] p = "apple" -> AppleMaxRetries
      [] OTHER -> 1

\* (variant: the off-by-one `attempt < max_retries`, which sleeps after the
\* last attempt as well)
ShouldDelay_mut(attempt, maxr) == attempt < maxr

\* `if attempt < max_retries - 1:` sleep and retry, else return None
\* (attempt is the zero-based loop index).
ShouldDelay(attempt, maxr) == attempt < maxr - 1

\* Does the connector close its discovery page before the detail phase?
\* meta/google/apple/openai: get_all_job_links ends with page.close();
\* nvidia/netflix/microsoft: run() opens the page and never closes it.
ClosesDiscoveryPage(p) == p \in {"meta", "google", "apple", "openai"}

\* Only Meta fans its listing pages out under the semaphore.
HasIndexTasks(p) == p = "meta"

\* ------------------------------------------------------- detail responses
\* What one navigation to a detail URL finds.  NoElem: the element/payload
\* is not on the page.  Otherwise the title text it carries.
NoElem == "none"
GoodTitle == "Engineer"
GenericTitle == "careers"

\* fault : goto/evaluate raised (timeout, navigation error)
\* struct: title in the embedded data blob / API payload
\* dom   : title in the rendered heading
\* ld    : title in an application/ld+json JobPosting block
Page(f, s, d, l) == [fault |-> f, struct |-> s, dom |-> d, ld |-> l]

NoPage == [fault |-> FALSE, struct |-> "unset", dom |-> "unset", ld |-> "unset"]

PageKinds ==
    { Page(TRUE, NoElem, NoElem, NoElem),
      Page(FALSE, NoElem, NoElem, NoElem),
      Page(FALSE, GoodTitle, GoodTitle, GoodTitle),
      Page(FALSE, "", "", ""),
      Page(FALSE, NoElem, GenericTitle, NoElem),
      Page(FALSE, NoElem, NoElem, GoodTitle) }

\* Outcome of the body of one attempt of scrape_job_details:
\*   "exc"  an exception inside the try block
\*   "none" an immediate `return None`
\*   "job"  a record with the given job_name
Exc == [kind |-> "exc", title |-> ""]
RetNone == [kind |-> "none", title |-> ""]
Job(title) == [kind |-> "job", title |-> title]

Meta_scrape_job_details(pg) ==
    IF pg.fault THEN Exc
    ELSE IF pg.struct # NoElem THEN Job(pg.struct)
    ELSE RetNone

Google_scrape_job_details(pg) ==
    IF pg.fault THEN Exc
    ELSE IF pg.struct # NoElem THEN Job(pg.struct)
    ELSE IF pg.ld # NoElem THEN Job(pg.ld)
    ELSE RetNone

Nvidia_scrape_job_details(pg) ==
    IF pg.fault THEN Exc
    ELSE IF pg.struct = NoElem THEN Exc
    ELSE Job(pg.struct)

Netflix_scrape_job_details(pg) ==
    IF pg.fault THEN Exc
    ELSE IF pg.struct = NoElem THEN Exc
    ELSE Job(pg.struct)

\* name is "" when no heading is found; "" or "careers" is rejected: raised
\* as ValueError while attempts remain, `return None` on the last attempt.
\* Both go through ShouldDelay exactly like an exception.
Apple_scrape_job_details(pg) ==
    IF pg.fault THEN Exc
    ELSE IF pg.dom = NoElem \/ pg.dom = "" \/ pg.dom = GenericTitle THEN Exc
    ELSE Job(pg.dom)

OpenAI_scrape_job_details(pg) ==
    IF pg.fault THEN Exc
    ELSE IF pg.dom = NoElem \/ pg.dom = "" THEN RetNone
    ELSE Job(pg.dom)

\* title is "N/A" only when neither heading exists.
Microsoft_scrape_job_details(pg) ==
    IF pg.fault THEN Exc
    ELSE IF pg.dom = NoElem THEN RetNone
    ELSE Job(pg.dom)

scrape_job_details(p, pg) ==
    CASE p = "meta" -> Meta_scrape_job_details(pg)
      [] p = "google" -> Google_scrape_job_details(pg)
      [] p = "nvidia" -> Nvidia_scrape_job_details(pg)
      [] p = "netflix" -> Netflix_scrape_job_details(pg)
      [] p = "apple" -> Apple_scrape_job_details(pg)
      [] p = "openai" -> OpenAI_scrape_job_details(pg)
      [] OTHER -> Microsoft_scrape_job_details(pg)

\* ------------------------------------------------------------ task results
Pending == [kind |-> "pending"]
Absent == [kind |-> "None"]
Record(link, title) == [kind |-> "job", job_link |-> link, job_name |-> title]

\* `[r for r in results if r]`: None is dropped, a dict (never empty, it
\* always has job_link) is kept.
Truthy(r) == r # Absent

\* ------------------------------------------------------------ entry point
\* --max_pages: an optional integer (argparse gives None when it is absent).
NoMaxPages == [given |-> FALSE, value |-> 0]
MaxPages(v) == [given |-> TRUE, value |-> v]
MaxPagesArgs == {NoMaxPages} \cup {MaxPages(v) : v \in -1..MaxPagesArg}

\* (variant: the off-by-one `< 0`, which lets --max_pages 0 through)
ConfigError_mut(mp) == mp.given /\ mp.value < 0

\* `if args.max_pages is not None and args.max_pages <= 0:`
ConfigError(mp) == mp.given /\ mp.value <= 0

\* `scraper = None` / no exit status yet
NoScraper == "None"
NotExited == -1

\* ------------------------------------------------------------------ state
VARIABLES
    job,          \* the JobRecord being translated
    rag,          \* its RAG entry, once translated
    ident,        \* its interchange-schema translation, once translated
    detected,     \* the classifications of its description text
    field,        \* a raw field value
    cleaned,      \* the results of cleaning it, and of cleaning that again
    max_pages,    \* args.max_pages
    scraper,      \* the connector object main() constructed
    exitStatus,   \* exit status of the process, NotExited while it runs
    probe,        \* what the first-page probe of the total found
    total,        \* total_pages / total_count after the probe
    dPc,          \* position of the discovery code
    cursor,       \* loop index i / start / current_offset
    all_links,    \* all_links / job_ids / job_links being collected
    last_height,  \* document.body.scrollHeight at the last scroll step
    stream,       \* the listing responses the loop fetched, in order
    now,          \* the wall clock, in seconds
    files,        \* the files of data/: name -> content state and write count
    dataDir,      \* the directory data/ exists
    output_data,  \* the envelope the last save_to_rag_json handed to json.dump
    savePc,       \* position of the process that is saving
    runs,         \* processes started so far
    portal,       \* the connector selected by --portal
    concurrency,  \* self.concurrency
    semaphore,    \* free permits of self.semaphore
    runPc,        \* position of run()
    discPage,     \* the page run()/get_all_job_links opens for discovery
    idxPc,        \* Meta: position of each scrape_index_page task
    job_links,    \* links returned by discovery, in dispatch order
    taskPc,       \* position of each scrape_job_with_semaphore task
    pageOpen,     \* the task's own page is open
    attempts,     \* attempts started by the task's scrape_job_details
    fails,        \* attempts that ended in an exception
    delays,       \* asyncio.sleep calls taken between attempts
    data,         \* what the task's latest navigation found
    result,       \* value of `result` in the task
    outOfOrder,   \* some task finished before an earlier-dispatched one
    jobs,         \* self.jobs
    saved         \* the save step was reached with records to write

mainVars == <<max_pages, scraper, exitStatus>>

listVars == <<probe, total, dPc, cursor, all_links, last_height, stream>>

fileVars == <<now, files, dataDir, output_data, savePc, runs>>

textVars == <<job, rag, ident, detected, field, cleaned>>

\* A Python value with its type: a str ("str"), a list of str ("list"), a
\* {"__html": ...} dict ("dict"), the JSON text of such a dict ("json").
\* A str is the sequence of its characters.
Value(kind, v) == [kind |-> kind, v |-> v]

\* A JobRecord; an absent or empty job_id is <<>>, a job_name of None is
\* NullName.
NullName == "None"

JobRecord(id, link, name, text, links) ==
    [job_id |-> id, job_link |-> link, job_name |-> name,
     job_description |-> text, job_responsibilities |-> <<>>,
     minimum_qualifications |-> <<>>, preferred_qualifications |-> <<>>,
     additional_links |-> links]

\* No record is being translated and no field cleaned.
InitText ==
    /\ job = JobRecord(<<>>, <<>>, GoodTitle, <<>>, Value("str", <<>>))
    /\ rag = <<>>
    /\ ident = <<>>
    /\ detected = <<>>
    /\ field = Value("str", <<>>)
    /\ cleaned = <<>>

vars == <<mainVars, listVars, fileVars, textVars, portal, concurrency, semaphore, runPc, discPage, idxPc, job_links,
          taskPc, pageOpen, attempts, fails, delays, data, result,
          outOfOrder, jobs, saved>>

detailVars == <<taskPc, pageOpen, attempts, fails, delays, data, result, outOfOrder>>

Tasks == DOMAIN taskPc
IndexTasks == DOMAIN idxPc

Init ==
    /\ InitText
    /\ max_pages \in MaxPagesArgs
    /\ scraper = NoScraper
    /\ exitStatus = NotExited
    /\ probe = [navfault |-> FALSE, count |-> 0, api |-> 0]   \* no probe made
    /\ total = 0
    /\ dPc = "idle"
    /\ cursor = 0
    /\ all_links = <<>>
    /\ stream = <<>>
    /\ last_height = 0
    /\ now = 0
    /\ files = <<>>
    /\ dataDir = FALSE
    /\ output_data = <<>>
    /\ savePc = "idle"
    /\ runs = 0
    /\ portal \in Portals
    /\ concurrency \in 1..MaxConcurrency
    /\ semaphore = concurrency
    /\ runPc = "main"
    /\ discPage = "none"
    /\ idxPc = <<>>
    /\ job_links = <<>>
    /\ taskPc = <<>>
    /\ pageOpen = <<>>
    /\ attempts = <<>>
    /\ fails = <<>>
    /\ delays = <<>>
    /\ data = <<>>
    /\ result = <<>>
    /\ outOfOrder = FALSE
    /\ jobs = <<>>
    /\ saved = FALSE


\* ------------------------------------------------------------------ main
\* main(): parse_args, then the max_pages check: print and sys.exit(1).
\* SystemExit is not an Exception, so it passes the handlers around
\* asyncio.run(main()) and ends the process with status 1.
MainExit ==
    /\ runPc = "main"
    /\ ConfigError(max_pages)
    /\ runPc' = "exited"
    /\ exitStatus' = 1
    /\ UNCHANGED <<listVars, fileVars, textVars, max_pages, scraper, portal, concurrency, semaphore, discPage, idxPc,
                   job_links, detailVars, jobs, saved>>

\* scraper = XScraper(concurrency=args.concurrency); await scraper.run(...)
MainConstruct ==
    /\ runPc = "main"
    /\ ~ConfigError(max_pages)
    /\ scraper' = portal
    /\ runPc' = "start"
    /\ UNCHANGED <<listVars, fileVars, textVars, max_pages, exitStatus, portal, concurrency, semaphore, discPage, idxPc,
                   job_links, detailVars, jobs, saved>>

\* ------------------------------------------------------------- semaphore
\* asyncio.Semaphore(concurrency): acquire() proceeds only while a permit
\* is free; `async with` releases on every way out of the block.
\* (variant: acquire() that never waits)
CanAcquire_mut(s) == TRUE
CanAcquire(s) == s > 0
Acquired(s) == s - 1
\* (variant: a slot that is never handed back)
Released_mut(s) == s
Released(s) == s + 1

\* ------------------------------------------------------------- discovery
\* tasks.append(...) for every link, then asyncio.gather(*tasks).
Dispatch(n) ==
    /\ job_links' = [i \in 1..n |-> i]
    /\ taskPc' = [i \in 1..n |-> "wait"]
    /\ pageOpen' = [i \in 1..n |-> FALSE]
    /\ attempts' = [i \in 1..n |-> 0]
    /\ fails' = [i \in 1..n |-> 0]
    /\ delays' = [i \in 1..n |-> 0]
    /\ data' = [i \in 1..n |-> NoPage]
    /\ result' = [i \in 1..n |-> Pending]
    /\ runPc' = "detail"

\* page = await context.new_page() at the start of discovery; Meta then
\* creates one scrape_index_page task per listing page.
OpenDiscoveryPage ==
    /\ runPc = "start"
    /\ discPage' = "open"
    /\ IF HasIndexTasks(portal)
         THEN \E n \in 0..MaxIndexPages :
                /\ idxPc' = [i \in 1..n |-> "wait"]
                /\ runPc' = "index"
         ELSE /\ runPc' = "discover"
              /\ UNCHANGED idxPc
    /\ UNCHANGED <<listVars, fileVars, textVars, mainVars, portal, concurrency, semaphore, job_links, detailVars, jobs, saved>>

\* context.new_page() raises: nothing catches it inside run().
OpenDiscoveryPageFail ==
    /\ runPc = "start"
    /\ runPc' = "aborted"
    /\ UNCHANGED <<listVars, fileVars, textVars, mainVars, portal, concurrency, semaphore, discPage, idxPc, job_links,
                   detailVars, jobs, saved>>

\* scrape_index_page: async with self.semaphore
IdxAcquire(i) ==
    /\ idxPc[i] = "wait"
    /\ CanAcquire(semaphore)
    /\ semaphore' = Acquired(semaphore)
    /\ idxPc' = [idxPc EXCEPT ![i] = "held"]
    /\ UNCHANGED <<listVars, fileVars, textVars, mainVars, portal, concurrency, runPc, discPage, job_links, detailVars, jobs, saved>>

\* p = await context.new_page()
IdxNewPage(i) ==
    /\ idxPc[i] = "held"
    /\ idxPc' = [idxPc EXCEPT ![i] = "open"]
    /\ UNCHANGED <<listVars, fileVars, textVars, mainVars, portal, concurrency, semaphore, runPc, discPage, job_links,
                   detailVars, jobs, saved>>

IdxNewPageFail(i) ==
    /\ idxPc[i] = "held"
    /\ idxPc' = [idxPc EXCEPT ![i] = "raised"]
    /\ semaphore' = Released(semaphore)
    /\ UNCHANGED <<listVars, fileVars, textVars, mainVars, portal, concurrency, runPc, discPage, job_links, detailVars, jobs, saved>>

\* goto/evaluate, then p.close() and return (the links, or [] from the
\* except branch, which closes the page as well).
IdxClose(i) ==
    /\ idxPc[i] = "open"
    /\ idxPc' = [idxPc EXCEPT ![i] = "done"]
    /\ semaphore' = Released(semaphore)
    /\ UNCHANGED <<listVars, fileVars, textVars, mainVars, portal, concurrency, runPc, discPage, job_links, detailVars, jobs, saved>>

\* p.close() raises in the except branch: the exception leaves the task.
IdxCloseFail(i) ==
    /\ idxPc[i] = "open"
    /\ idxPc' = [idxPc EXCEPT ![i] = "raised"]
    /\ semaphore' = Released(semaphore)
    /\ UNCHANGED <<listVars, fileVars, textVars, mainVars, portal, concurrency, runPc, discPage, job_links, detailVars, jobs, saved>>

\* results = await asyncio.gather(*index_tasks); dedup; await page.close().
\* The index tasks are finished and dropped.
IndexGather ==
    /\ runPc = "index"
    /\ \A i \in IndexTasks : idxPc[i] = "done"
    /\ discPage' = "closed"
    /\ idxPc' = <<>>
    /\ \E n \in 0..MaxLinks : Dispatch(n)
    /\ UNCHANGED <<listVars, fileVars, textVars, mainVars, portal, concurrency, semaphore, outOfOrder, jobs, saved>>

\* gather re-raises the first exception of an index task.
IndexGatherRaise ==
    /\ runPc = "index"
    /\ \E i \in IndexTasks : idxPc[i] = "raised"
    /\ runPc' = "aborted"
    /\ UNCHANGED <<listVars, fileVars, textVars, mainVars, portal, concurrency, semaphore, discPage, idxPc, job_links,
                   detailVars, jobs, saved>>

\* The sequential discovery loop of the other connectors; it returns a
\* deduplicated list of n links.
Discover ==
    /\ runPc = "discover"
    /\ discPage' = IF ClosesDiscoveryPage(portal) THEN "closed" ELSE "open"
    /\ \E n \in 0..MaxLinks : Dispatch(n)
    /\ UNCHANGED <<listVars, fileVars, textVars, mainVars, portal, concurrency, semaphore, idxPc, outOfOrder, jobs, saved>>


\* ------------------------------------------------------------ detail task
Finished(pc) == pc \in {"done", "raised", "cancelled"}
HoldsSlot(pc) == pc \in {"held", "fetch", "sleep", "closing"}

\* Task t ends while an earlier-dispatched task is still unfinished.
Overtakes(t) == \E u \in Tasks : u < t /\ ~Finished(taskPc[u])

\* scrape_job_with_semaphore: async with self.semaphore
Acquire(t) ==
    /\ taskPc[t] = "wait"
    /\ CanAcquire(semaphore)
    /\ semaphore' = Acquired(semaphore)
    /\ taskPc' = [taskPc EXCEPT ![t] = "held"]
    /\ UNCHANGED <<listVars, fileVars, textVars, mainVars, portal, concurrency, runPc, discPage, idxPc, job_links, pageOpen,
                   attempts, fails, delays, data, result, outOfOrder, jobs, saved>>

\* page = await context.new_page()
NewPage(t) ==
    /\ taskPc[t] = "held"
    /\ pageOpen' = [pageOpen EXCEPT ![t] = TRUE]
    /\ taskPc' = [taskPc EXCEPT ![t] = "fetch"]
    /\ UNCHANGED <<listVars, fileVars, textVars, mainVars, portal, concurrency, semaphore, runPc, discPage, idxPc, job_links,
                   attempts, fails, delays, data, result, outOfOrder, jobs, saved>>

\* context.new_page() raises: the call is outside every try block, so the
\* exception leaves the task through `async with`, which releases the slot.
NewPageFail(t) ==
    /\ taskPc[t] = "held"
    /\ taskPc' = [taskPc EXCEPT ![t] = "raised"]
    /\ semaphore' = Released(semaphore)
    /\ outOfOrder' = (outOfOrder \/ Overtakes(t))
    /\ UNCHANGED <<listVars, fileVars, textVars, mainVars, portal, concurrency, runPc, discPage, idxPc, job_links, pageOpen,
                   attempts, fails, delays, data, result, jobs, saved>>

\* The attempt ends scrape_job_details (a record, or None) unless it failed
\* with attempts left.
Returns(out, attempt, p) == out.kind # "exc" \/ ~ShouldDelay(attempt, max_retries(p))

\* One attempt of scrape_job_details: goto, evaluate, build the record.
\* data holds the response the function returned on until the task ends
\* (the response of an attempt that is retried is dropped with the next
\* navigation).
Attempt(t) ==
    /\ taskPc[t] = "fetch"
    /\ \E pg \in PageKinds :
         LET out == IF attempts[t] < max_retries(portal)
                      THEN scrape_job_details(portal, pg)
                      ELSE RetNone   \* `for` is exhausted: the trailing return None
         IN
         /\ attempts' = [attempts EXCEPT ![t] = IF attempts[t] < max_retries(portal)
                                                  THEN @ + 1 ELSE @]
         /\ data' = [data EXCEPT ![t] = IF Returns(out, attempts[t], portal)
                                           THEN pg ELSE NoPage]
         /\ CASE out.kind = "job" ->
                   /\ result' = [result EXCEPT ![t] = Record(job_links[t], out.title)]
                   /\ taskPc' = [taskPc EXCEPT ![t] = "closing"]
                   /\ UNCHANGED <<fails, delays>>
              [] out.kind = "none" ->
                   /\ result' = [result EXCEPT ![t] = Absent]
                   /\ taskPc' = [taskPc EXCEPT ![t] = "closing"]
                   /\ UNCHANGED <<fails, delays>>
              [] OTHER ->
                   /\ fails' = [fails EXCEPT ![t] = @ + 1]
                   /\ IF ShouldDelay(attempts[t], max_retries(portal))
                        THEN /\ delays' = [delays EXCEPT ![t] = @ + 1]
                             /\ taskPc' = [taskPc EXCEPT ![t] = "sleep"]
                             /\ UNCHANGED result
                        ELSE /\ result' = [result EXCEPT ![t] = Absent]
                             /\ taskPc' = [taskPc EXCEPT ![t] = "closing"]
                             /\ UNCHANGED delays
    /\ UNCHANGED <<listVars, fileVars, textVars, mainVars, portal, concurrency, semaphore, runPc, discPage, idxPc, job_links,
                   pageOpen, outOfOrder, jobs, saved>>

\* await asyncio.sleep(...) returns and the loop starts the next attempt.
Wake(t) ==
    /\ taskPc[t] = "sleep"
    /\ taskPc' = [taskPc EXCEPT ![t] = "fetch"]
    /\ UNCHANGED <<listVars, fileVars, textVars, mainVars, portal, concurrency, semaphore, runPc, discPage, idxPc, job_links,
                   pageOpen, attempts, fails, delays, data, result, outOfOrder, jobs, saved>>

\* await page.close(); return result  (and the slot is released)
ClosePage(t) ==
    /\ taskPc[t] = "closing"
    /\ pageOpen' = [pageOpen EXCEPT ![t] = FALSE]
    /\ taskPc' = [taskPc EXCEPT ![t] = "done"]
    /\ data' = [data EXCEPT ![t] = NoPage]
    /\ semaphore' = Released(semaphore)
    /\ outOfOrder' = (outOfOrder \/ Overtakes(t))
    /\ UNCHANGED <<listVars, fileVars, textVars, mainVars, portal, concurrency, runPc, discPage, idxPc, job_links,
                   attempts, fails, delays, result, jobs, saved>>

\* page.close() raises: `return result` is never reached and the task's
\* locals are gone with it.  Whether the browser still holds the page after
\* a failed close is not determined.
ClosePageFail(t) ==
    /\ taskPc[t] = "closing"
    /\ \E left \in BOOLEAN : pageOpen' = [pageOpen EXCEPT ![t] = left]
    /\ taskPc' = [taskPc EXCEPT ![t] = "raised"]
    /\ data' = [data EXCEPT ![t] = NoPage]
    /\ result' = [result EXCEPT ![t] = Pending]
    /\ attempts' = [attempts EXCEPT ![t] = 0]
    /\ fails' = [fails EXCEPT ![t] = 0]
    /\ delays' = [delays EXCEPT ![t] = 0]
    /\ semaphore' = Released(semaphore)
    /\ outOfOrder' = (outOfOrder \/ Overtakes(t))
    /\ UNCHANGED <<listVars, fileVars, textVars, mainVars, portal, concurrency, runPc, discPage, idxPc, job_links, jobs, saved>>

\* ------------------------------------------------------------------- run
\* results = await asyncio.gather(*tasks) re-raises the first exception of
\* a task; run() has no handler, so it ends before aggregation and save and
\* the exception is printed by the entry point.
GatherRaise ==
    /\ runPc = "detail"
    /\ \E t \in Tasks : taskPc[t] = "raised"
    /\ runPc' = "aborted"
    /\ UNCHANGED <<listVars, fileVars, textVars, mainVars, portal, concurrency, semaphore, discPage, idxPc, job_links,
                   detailVars, jobs, saved>>

\* asyncio.run() cancels the tasks that are still pending when main() has
\* ended: CancelledError is raised at the task's current await, is not an
\* Exception, and leaves through `async with` (slot released, no close).
Cancel(t) ==
    /\ runPc = "aborted"
    /\ ~Finished(taskPc[t])
    /\ semaphore' = IF HoldsSlot(taskPc[t]) THEN Released(semaphore) ELSE semaphore
    /\ taskPc' = [taskPc EXCEPT ![t] = "cancelled"]
    /\ data' = [data EXCEPT ![t] = NoPage]
    /\ result' = [result EXCEPT ![t] = Pending]
    /\ attempts' = [attempts EXCEPT ![t] = 0]
    /\ fails' = [fails EXCEPT ![t] = 0]
    /\ delays' = [delays EXCEPT ![t] = 0]
    /\ UNCHANGED <<listVars, fileVars, textVars, mainVars, portal, concurrency, runPc, discPage, idxPc, job_links, pageOpen,
                   outOfOrder, jobs, saved>>

IdxCancel(i) ==
    /\ runPc = "aborted"
    /\ idxPc[i] \in {"wait", "held", "open"}
    /\ semaphore' = IF idxPc[i] = "wait" THEN semaphore ELSE Released(semaphore)
    /\ idxPc' = [idxPc EXCEPT ![i] = "cancelled"]
    /\ UNCHANGED <<listVars, fileVars, textVars, mainVars, portal, concurrency, runPc, discPage, job_links, detailVars, jobs, saved>>

\* (variant: results collected in another order than the dispatch order)
GatherResults_mut == [i \in 1..Len(job_links) |-> result[Len(job_links) + 1 - i]]

\* gather's list is positional: results[i] belongs to the i-th task.
GatherResults == [i \in 1..Len(job_links) |-> result[i]]

\* self.jobs = [r for r in results if r]
FilterResults(results) == SelectSeq(results, Truthy)

\* gather returned; self.jobs is assigned; save_to_formats and the JSON
\* saves run (each returns at once when self.jobs is empty).
AggregateAndSave ==
    /\ runPc = "detail"
    /\ \A t \in Tasks : taskPc[t] = "done"
    /\ jobs' = FilterResults(GatherResults)
    /\ saved' = (jobs' # <<>>)
    /\ runPc' = "saved"
    /\ UNCHANGED <<listVars, fileVars, textVars, mainVars, portal, concurrency, semaphore, discPage, idxPc, job_links, detailVars>>

\* await browser.close(): every page of the browser goes with it.
BrowserClose ==
    /\ runPc = "saved"
    /\ runPc' = "closed"
    /\ discPage' = "closed"
    /\ UNCHANGED <<listVars, fileVars, textVars, mainVars, portal, concurrency, semaphore, idxPc, job_links, detailVars, jobs, saved>>

\* asyncio.run() returns, or the exception of run() is printed by the
\* `except Exception` of the entry point: the script ends with status 0.
ProcessExit ==
    /\ runPc \in {"closed", "aborted"}
    /\ exitStatus = NotExited
    /\ \A t \in Tasks : Finished(taskPc[t])
    /\ \A i \in IndexTasks : idxPc[i] \in {"done", "raised", "cancelled"}
    /\ exitStatus' = 0
    /\ UNCHANGED <<listVars, fileVars, textVars, max_pages, scraper, portal, concurrency, semaphore, runPc, discPage,
                   idxPc, job_links, detailVars, jobs, saved>>

Next ==
    \/ MainExit
    \/ MainConstruct
    \/ ProcessExit
    \/ OpenDiscoveryPage
    \/ OpenDiscoveryPageFail
    \/ \E i \in IndexTasks : IdxAcquire(i)
    \/ \E i \in IndexTasks : IdxNewPage(i)
    \/ \E i \in IndexTasks : IdxNewPageFail(i)
    \/ \E i \in IndexTasks : IdxClose(i)
    \/ \E i \in IndexTasks : IdxCloseFail(i)
    \/ \E i \in IndexTasks : IdxCancel(i)
    \/ IndexGather
    \/ IndexGatherRaise
    \/ Discover
    \/ \E t \in Tasks : Acquire(t)
    \/ \E t \in Tasks : NewPage(t)
    \/ \E t \in Tasks : NewPageFail(t)
    \/ \E t \in Tasks : Attempt(t)
    \/ \E t \in Tasks : Wake(t)
    \/ \E t \in Tasks : ClosePage(t)
    \/ \E t \in Tasks : ClosePageFail(t)
    \/ \E t \in Tasks : Cancel(t)
    \/ GatherRaise
    \/ AggregateAndSave
    \/ BrowserClose

Spec == Init /\ [][Next]_vars

\* ------------------------------------------------------- listing pages
\* Every connector that discovers links or records from listing pages.
DiscoveryPortals == Portals \cup {"amazon"}

\* What one listing request finds: fault (goto/evaluate/json.loads raised)
\* or the items of the page in page order (link or position ids).
Listing(f, items) == [fault |-> f, items |-> items]
FaultListing == Listing(TRUE, <<>>)
EmptyListing == Listing(FALSE, <<>>)

ListingKinds ==
    { FaultListing,
      EmptyListing,
      Listing(FALSE, [k \in 1..10 |-> k]),
      Listing(FALSE, [k \in 1..10 |-> 10 + k]),
      Listing(FALSE, <<22, 21, 22>>) }

\* What the first-page probe of the total finds: the navigation raised, or
\* the count read from the page (Missing: element absent or unparsable), and
\* for NVIDIA the count of the search API used as a fallback.
Missing == -1
Probe(nav, count, api) == [navfault |-> nav, count |-> count, api |-> api]
NoProbe == Probe(FALSE, 0, 0)
ProbeCounts == {1, 2, 20}
ProbeKinds ==
    {Probe(TRUE, Missing, Missing)}
    \cup {Probe(FALSE, c, Missing) : c \in ProbeCounts \cup {Missing}}
    \cup {Probe(FALSE, Missing, 20)}

HasProbe(p) == p \in {"meta", "apple", "nvidia", "netflix", "microsoft"}

\* The probe's navigation is outside every try block (meta.py:40,
\* apple.py:45, nvidia.py:23, microsoft.py:23); Netflix has it inside.
ProbeRaises(p, pr) == pr.navfault /\ p # "netflix"

\* total_pages_info / total_pages / total_count after the probe.
ProbedTotal(p, pr) ==
    CASE p = "meta" -> IF pr.count = Missing THEN 1 ELSE pr.count
      [] p = "apple" -> IF pr.count <= 1 THEN 315 ELSE pr.count
      [] p = "nvidia" -> IF pr.count > 0 THEN pr.count
                         ELSE IF pr.api = Missing THEN 0 ELSE pr.api
      [] p = "netflix" -> IF pr.navfault \/ pr.count = Missing THEN 1000 ELSE pr.count
      [] p = "microsoft" -> IF pr.count = Missing THEN 100 ELSE pr.count
      [] OTHER -> 0

\* `if max_pages:` is false for None (and for 0).
\* (variant: a test for presence, `max_pages is not None`)
Truth_mut(mp) == mp.given

Truth(mp) == mp.given /\ mp.value # 0

Min(a, b) == IF a < b THEN a ELSE b

\* limit_per_step of NVIDIA's get_all_job_ids
limit_per_step == 10

\* The bound of the pagination loop: a number of iterations for the
\* page-indexed loops, a number of items (to_fetch) for the offset loops.
LoopLimit(p, tot, mp) ==
    CASE p = "google" -> IF Truth(mp) THEN mp.value ELSE 999
      [] p = "apple" -> IF Truth(mp) THEN Min(tot, mp.value) ELSE tot
      [] p = "meta" -> IF Truth(mp) THEN Min(tot, mp.value) ELSE tot
      [] p = "microsoft" -> IF Truth(mp) THEN Min(tot, mp.value * 10) ELSE tot
      [] p = "amazon" -> IF Truth(mp) THEN mp.value ELSE 10
      [] p = "nvidia" -> IF Truth(mp) THEN Min(tot, mp.value * limit_per_step) ELSE tot
      [] p = "netflix" -> IF Truth(mp) THEN Min(tot, mp.value * 10) ELSE tot
      [] OTHER -> 1

\* Loop condition.  cursor: iterations started (page-indexed loops);
\* `start` (Microsoft); current_offset (NVIDIA, Netflix).
Continues(p, c, limit) == c < limit

\* (variant: the append without the membership test)
AppendNew_mut(links, items) == links \o items

\* `if link not in all_links: all_links.append(link)` over the items.
RECURSIVE AppendNew(_, _)
AppendNew(links, items) ==
    IF items = <<>> THEN links
    ELSE LET x == Head(items)
         IN AppendNew(IF \E k \in 1..Len(links) : links[k] = x
                        THEN links ELSE Append(links, x),
                      Tail(items))

\* sorted(list(set(links)))
RECURSIVE SortedSeq(_)
SortedSeq(S) ==
    IF S = {} THEN <<>>
    ELSE LET m == CHOOSE x \in S : \A y \in S : x <= y
         IN <<m>> \o SortedSeq(S \ {m})

Range(q) == {q[k] : k \in 1..Len(q)}

Prefix(q, n) == SubSeq(q, 1, Min(n, Len(q)))

\* One iteration of the pagination loop on response r: the links after
\* it, the cursor after it, and whether it left the loop by `break`.
\* hits: the total an Amazon response carries.
Iter(links, c, brk) == [links |-> links, cursor |-> c, brk |-> brk]

IterStep(p, links, c, r, hits) ==
    CASE p = "google" ->
           IF r.fault \/ r.items = <<>> THEN Iter(links, c + 1, TRUE)
           ELSE Iter(AppendNew(links, r.items), c + 1, FALSE)
      [] p = "apple" ->
           IF r.fault THEN Iter(links, c + 1, FALSE)
           ELSE IF r.items = <<>> THEN Iter(links, c + 1, c + 1 > 1)
           ELSE Iter(AppendNew(links, r.items), c + 1, FALSE)
      [] p = "meta" ->
           Iter(AppendNew(links, IF r.fault THEN <<>> ELSE r.items), c + 1, FALSE)
      [] p = "microsoft" ->
           IF r.fault \/ r.items = <<>> THEN Iter(links, c + 10, TRUE)
           ELSE Iter(AppendNew(links, r.items), c + 10, FALSE)
      [] p = "amazon" ->
           IF r.fault \/ r.items = <<>> THEN Iter(links, c + 1, TRUE)
           ELSE Iter(links \o r.items, c + 1, 100 * (c + 1) >= hits)
      [] p = "nvidia" ->
           IF r.fault \/ r.items = <<>> THEN Iter(links, c, TRUE)
           ELSE Iter(AppendNew(links, r.items), c + Len(r.items), FALSE)
      [] p = "netflix" ->
           IF r.fault \/ r.items = <<>> THEN Iter(links, c, TRUE)
           ELSE Iter(AppendNew(links, r.items), c + Len(r.items), Len(r.items) < 10)
      [] OTHER ->
           IF r.fault THEN Iter(<<>>, c + 1, TRUE)
           ELSE Iter(SortedSeq(Range(r.items)), c + 1, FALSE)

\* What discovery hands to the dispatch loop: Netflix returns
\* job_ids[:to_fetch], OpenAI's run() keeps job_links[:max_pages * 20].
Returned(p, links, limit, mp) ==
    CASE p = "netflix" -> IF Truth(mp) THEN Prefix(links, limit) ELSE links
      [] p = "openai" -> IF Truth(mp) THEN Prefix(links, mp.value * 20) ELSE links
      [] OTHER -> links

\* The run starts discovery: run() was called with a valid max_pages.
InitDiscovery ==
    /\ InitText
    /\ portal \in DiscoveryPortals
    /\ max_pages \in {NoMaxPages} \cup {MaxPages(v) : v \in 1..MaxPagesArg}
    /\ scraper = portal
    /\ exitStatus = NotExited
    /\ concurrency = MaxConcurrency
    /\ semaphore = concurrency
    /\ runPc = "discover"
    /\ discPage = "open"
    /\ probe = NoProbe
    /\ total = 0
    /\ dPc = "probe"
    /\ cursor = 0
    /\ all_links = <<>>
    /\ stream = <<>>
    /\ last_height = 0
    /\ now = 0
    /\ files = <<>>
    /\ dataDir = FALSE
    /\ output_data = <<>>
    /\ savePc = "idle"
    /\ runs = 0
    /\ idxPc = <<>>
    /\ job_links = <<>>
    /\ taskPc = <<>> /\ pageOpen = <<>> /\ attempts = <<>> /\ fails = <<>>
    /\ delays = <<>> /\ data = <<>> /\ result = <<>>
    /\ outOfOrder = FALSE
    /\ jobs = <<>>
    /\ saved = FALSE

runVars == <<mainVars, fileVars, textVars, portal, concurrency, semaphore, runPc, discPage, idxPc,
             job_links, detailVars, saved>>

\* The first navigation and the read of the total (connectors without a
\* probe go straight to the loop).
\* OpenAI scrolls its single listing page to the end before reading the
\* links; the page reports a height in 1..MaxHeight.

ProbeTotal(mp) ==
    /\ dPc = "probe"
    /\ \E pr \in (IF HasProbe(portal) THEN ProbeKinds ELSE {NoProbe}) :
         /\ probe' = pr
         /\ IF ProbeRaises(portal, pr)
              THEN /\ dPc' = "raised"
                   /\ UNCHANGED total
              ELSE /\ total' = ProbedTotal(portal, pr)
                   /\ dPc' = IF Continues(portal, 0, LoopLimit(portal, total', mp))
                               THEN (IF portal = "openai" THEN "scroll" ELSE "loop")
                               ELSE "returned"
    /\ last_height' \in (IF portal = "openai" THEN 1..MaxHeight ELSE {last_height})
    /\ UNCHANGED <<cursor, all_links, stream, jobs, runVars>>

\* One turn of `while True`: scroll to the bottom, wait, read the height;
\* the loop is left when the height has not changed.  An exception leaves
\* the function with the empty list.
Scroll ==
    /\ dPc = "scroll"
    /\ \/ \E new_height \in 1..MaxHeight :
            IF new_height = last_height
              THEN dPc' = "loop" /\ UNCHANGED last_height
              ELSE last_height' = new_height /\ UNCHANGED dPc
       \/ dPc' = "returned" /\ UNCHANGED last_height
    /\ UNCHANGED <<probe, total, cursor, all_links, stream, jobs, runVars>>

\* One iteration of the pagination loop, up to the next loop test; when the
\* loop is left the function returns.  A site has finitely many listing
\* pages: past MaxFetches requests it answers with an empty page.
FetchListing(mp) ==
    /\ dPc = "loop"
    /\ \E r \in (IF Len(stream) < MaxFetches THEN ListingKinds ELSE {EmptyListing}) :
       \E hits \in (IF portal = "amazon" THEN {0, 300} ELSE {0}) :
         LET limit == LoopLimit(portal, total, mp)
             it == IterStep(portal, all_links, cursor, r, hits)
             out == it.brk \/ ~Continues(portal, it.cursor, limit)
         IN
         /\ stream' = Append(stream, r)
         /\ cursor' = it.cursor
         /\ all_links' = IF out THEN Returned(portal, it.links, limit, mp)
                         ELSE it.links
         /\ dPc' = IF out THEN "returned" ELSE "loop"
         /\ jobs' = IF portal = "amazon"
                      THEN [k \in 1..Len(it.links) |-> Record(it.links[k], GoodTitle)]
                      ELSE jobs
    /\ UNCHANGED <<probe, total, last_height, runVars>>

NextDiscoveryWith(mp) ==
    \/ ProbeTotal(mp)
    \/ Scroll
    \/ FetchListing(mp)

NextDiscovery ==
    \/ ProbeTotal(max_pages)
    \/ Scroll
    \/ FetchListing(max_pages)

SpecDiscovery == InitDiscovery /\ [][NextDiscovery]_vars

\* The connector keeps running: a step that can be taken is taken.
SpecDiscoveryFair == SpecDiscovery /\ WF_vars(NextDiscovery)

\* run(max_pages=...) called directly on a connector, not through main():
\* without a cap, or with the cap 0 that main() would have refused.
InitDirect ==
    /\ portal \in DiscoveryPortals
    /\ max_pages \in {NoMaxPages, MaxPages(0)}
    /\ scraper = portal
    /\ exitStatus = NotExited
    /\ concurrency = MaxConcurrency
    /\ semaphore = concurrency
    /\ runPc = "discover"
    /\ discPage = "open"
    /\ probe = NoProbe
    /\ total = 0
    /\ dPc = "probe"
    /\ cursor = 0
    /\ all_links = <<>>
    /\ stream = <<>>
    /\ last_height = 0
    /\ InitText
    /\ now = 0
    /\ files = <<>>
    /\ dataDir = FALSE
    /\ output_data = <<>>
    /\ savePc = "idle"
    /\ runs = 0
    /\ idxPc = <<>>
    /\ job_links = <<>>
    /\ taskPc = <<>> /\ pageOpen = <<>> /\ attempts = <<>> /\ fails = <<>>
    /\ delays = <<>> /\ data = <<>> /\ result = <<>>
    /\ outOfOrder = FALSE
    /\ jobs = <<>>
    /\ saved = FALSE

SpecDirect == InitDirect /\ [][NextDiscovery]_vars

\* ------------------------------------------------------------- strings
\* str.lower() on the letters the sample texts use in upper case.
Lower(s) ==
    LET LowerChar(c) ==
            CASE c = "R" -> "r" [] c = "H" -> "h" [] c = "T" -> "t"
              [] c = "N" -> "n" [] c = "W" -> "w" [] OTHER -> c
    IN [k \in 1..Len(s) |-> LowerChar(s[k])]

\* s[i:].startswith(pat)
StartsWithAt(s, pat, i) ==
    /\ i + Len(pat) - 1 <= Len(s)
    /\ \A k \in 1..Len(pat) : s[i + k - 1] = pat[k]

\* `pat in s`
Contains(s, pat) == \E i \in 1..(Len(s) - Len(pat) + 1) : StartsWithAt(s, pat, i)

\* s.split(sep)[-1] and s.split(sep)[0] for a one-character sep.
AfterLast(s, sep) ==
    IF \E k \in 1..Len(s) : s[k] = sep
      THEN LET k == CHOOSE k \in 1..Len(s) :
                      s[k] = sep /\ \A m \in (k + 1)..Len(s) : s[m] # sep
           IN SubSeq(s, k + 1, Len(s))
      ELSE s

BeforeFirst(s, sep) ==
    IF \E k \in 1..Len(s) : s[k] = sep
      THEN LET k == CHOOSE k \in 1..Len(s) :
                      s[k] = sep /\ \A m \in 1..(k - 1) : s[m] # sep
           IN SubSeq(s, 1, k - 1)
      ELSE s

\* s.strip(): white space is the space and the newline.
RECURSIVE LStrip(_)
LStrip(s) == IF s # <<>> /\ Head(s) \in {" ", "\n"} THEN LStrip(Tail(s)) ELSE s

RECURSIVE RStrip(_)
RStrip(s) ==
    IF s # <<>> /\ s[Len(s)] \in {" ", "\n"} THEN RStrip(SubSeq(s, 1, Len(s) - 1)) ELSE s

Strip(s) == RStrip(LStrip(s))

\* s.split(",") : the parts between the commas, in order.
RECURSIVE SplitComma(_)
SplitComma(s) ==
    IF \E k \in 1..Len(s) : s[k] = ","
      THEN <<BeforeFirst(s, ",")>>
           \o SplitComma(SubSeq(s, Len(BeforeFirst(s, ",")) + 2, Len(s)))
      ELSE <<s>>

\* s.replace(old, new)
RECURSIVE Replace(_, _, _)
Replace(s, old, new) ==
    IF s = <<>> THEN <<>>
    ELSE IF StartsWithAt(s, old, 1)
      THEN new \o Replace(SubSeq(s, Len(old) + 1, Len(s)), old, new)
      ELSE <<Head(s)>> \o Replace(Tail(s), old, new)

\* sep.join(parts)
RECURSIVE Join(_, _)
Join(parts, sep) ==
    IF parts = <<>> THEN <<>>
    ELSE IF Len(parts) = 1 THEN parts[1]
    ELSE parts[1] \o sep \o Join(Tail(parts), sep)

\* ------------------------------------------------------- derived fields
\* (variant: the remote test returning before the hybrid test)
detect_work_mode_mut(text) ==
    IF text = <<>> THEN "onsite"
    ELSE LET t == Lower(text)
         IN IF \/ Contains(t, <<"r", "e", "m", "o", "t", "e">>)
               \/ Contains(t, <<"w", "o", "r", "k", " ", "f", "r", "o", "m", " ", "h", "o", "m", "e">>)
               \/ Contains(t, <<"w", "f", "h">>)
              THEN "remote"
              ELSE IF Contains(t, <<"h", "y", "b", "r", "i", "d">>) THEN "hybrid" ELSE "onsite"

detect_work_mode(text) ==
    IF text = <<>> THEN "onsite"
    ELSE LET t == Lower(text)
         IN IF \/ Contains(t, <<"r", "e", "m", "o", "t", "e">>)
               \/ Contains(t, <<"w", "o", "r", "k", " ", "f", "r", "o", "m", " ", "h", "o", "m", "e">>)
               \/ Contains(t, <<"w", "f", "h">>)
              THEN (IF Contains(t, <<"h", "y", "b", "r", "i", "d">>) THEN "hybrid" ELSE "remote")
              ELSE IF Contains(t, <<"h", "y", "b", "r", "i", "d">>) THEN "hybrid" ELSE "onsite"

\* re.search(r'(\d+%\s*(travel|traveling))', text, re.I): a match that
\* starts at i is the longest run of digits from i, "%", any white space and
\* "travel" (the first alternative; "traveling" is matched as "travel").
RECURSIVE DigitsEnd(_, _)
DigitsEnd(s, i) ==
    IF i <= Len(s) /\ s[i] \in {"0", "1", "2", "3", "4", "5", "6", "7", "8", "9"}
      THEN DigitsEnd(s, i + 1) ELSE i

RECURSIVE SpacesEnd(_, _)
SpacesEnd(s, i) == IF i <= Len(s) /\ s[i] \in {" ", "\n"} THEN SpacesEnd(s, i + 1) ELSE i

\* The position after the "%" of a match starting at i, 0 when none.
PercentEnd(s, i) ==
    LET j == DigitsEnd(s, i)
    IN IF j > i /\ j <= Len(s) /\ s[j] = "%" THEN j + 1 ELSE 0

TravelMatchAt(s, i) ==
    /\ PercentEnd(s, i) # 0
    /\ StartsWithAt(Lower(s), <<"t", "r", "a", "v", "e", "l">>, SpacesEnd(s, PercentEnd(s, i)))

detect_travel(text) ==
    IF text = <<>> THEN <<"N", "o", " ", "t", "r", "a", "v", "e", "l">>
    ELSE IF \E i \in 1..Len(text) : TravelMatchAt(text, i)
      THEN LET i == CHOOSE i \in 1..Len(text) :
                      /\ TravelMatchAt(text, i)
                      /\ \A m \in 1..(i - 1) : ~TravelMatchAt(text, m)
           IN SubSeq(text, i, SpacesEnd(text, PercentEnd(text, i)) + 5)
    ELSE IF Contains(Lower(text), <<"n", "o", " ", "t", "r", "a", "v", "e", "l">>) THEN <<"N", "o", " ", "t", "r", "a", "v", "e", "l">>
    ELSE IF \/ Contains(Lower(text), <<"t", "r", "a", "v", "e", "l", " ", "r", "e", "q", "u", "i", "r", "e", "d">>)
            \/ Contains(Lower(text), <<"w", "i", "l", "l", "i", "n", "g", "n", "e", "s", "s", " ", "t", "o", " ", "t", "r", "a", "v", "e", "l">>)
      THEN <<"T", "r", "a", "v", "e", "l", " ", "r", "e", "q", "u", "i", "r", "e", "d">>
    ELSE <<"N", "o", "t", " ", "s", "p", "e", "c", "i", "f", "i", "e", "d">>

\* ------------------------------------------------------ field cleaning
\* The end of the match of '<[^<]+?>' that starts at position 1, 0 when
\* there is none: the nearest ">" after at least one character, with no
\* "<" in between.
TagEnd(s) ==
    IF s # <<>> /\ Head(s) = "<"
         /\ \E j \in 3..Len(s) : s[j] = ">" /\ \A k \in 2..(j - 1) : s[k] # "<"
      THEN CHOOSE j \in 3..Len(s) :
               /\ s[j] = ">"
               /\ \A k \in 2..(j - 1) : s[k] # "<" /\ (k >= 3 => s[k] # ">")
      ELSE 0

\* re.sub('<[^<]+?>', '', content)
RECURSIVE StripTags(_)
StripTags(s) ==
    IF s = <<>> THEN <<>>
    ELSE IF TagEnd(s) # 0 THEN StripTags(SubSeq(s, TagEnd(s) + 1, Len(s)))
    ELSE <<Head(s)>> \o StripTags(Tail(s))

\* `not field_val` returns ""; a wrapper is unwrapped; then the chained
\* str.replace calls on the list and paragraph tags, the tag removal, the
\* chained str.replace calls on the entities in the code's order, and
\* strip().  "*" stands for the bullet character.
clean_html_field(val) ==
    IF val.kind = "str" /\ val.v = <<>> THEN <<>>
    ELSE LET b1 == Replace(val.v, <<"<", "/", "l", "i", ">">>, <<"\n", "*", " ">>)
             b2 == Replace(b1, <<"<", "u", "l", ">">>, <<"\n">>)
             b3 == Replace(b2, <<"<", "/", "u", "l", ">">>, <<"\n">>)
             b4 == Replace(b3, <<"<", "b", "r", ">">>, <<"\n">>)
             b5 == Replace(b4, <<"<", "b", "r", "/", ">">>, <<"\n">>)
             content == Replace(b5, <<"<", "/", "p", ">">>, <<"\n", "\n">>)
             e1 == Replace(StripTags(content), <<"&", "q", "u", "o", "t", ";">>, <<"\"">>)
             e2 == Replace(e1, <<"&", "#", "0", "3", "9", ";">>, <<"'">>)
             e3 == Replace(e2, <<"&", "a", "m", "p", ";">>, <<"&">>)
             e4 == Replace(e3, <<"&", "n", "b", "s", "p", ";">>, <<" ">>)
         IN Strip(Replace(e4, <<"&", "b", "u", "l", "l", ";">>, <<"*">>))

\* ------------------------------------------------------- translations
\* [x.strip() for x in parts if x.strip()]
RECURSIVE StripAll(_)
StripAll(parts) ==
    IF parts = <<>> THEN <<>>
    ELSE (IF Strip(Head(parts)) # <<>> THEN <<Strip(Head(parts))>> ELSE <<>>)
         \o StripAll(Tail(parts))

full_text(j) ==
    Join(<<j.job_description, j.job_responsibilities,
           j.minimum_qualifications, j.preferred_qualifications>>, <<" ">>)

\* RAGJobPosting(**data_dict) accepts the entry.
Validates(j) == j.job_name # NullName

translate_to_rag_schema(j) ==
    [job_id |-> BeforeFirst(AfterLast(IF j.job_id # <<>> THEN j.job_id
                                                           ELSE j.job_link, "/"), "?"),
     job_title |-> j.job_name,
     job_link |-> j.job_link,
     work_mode |-> detect_work_mode(full_text(j)),
     travel_requirement |-> detect_travel(full_text(j)),
     additional_links |-> IF j.additional_links.kind = "str"
                            THEN StripAll(SplitComma(j.additional_links.v))
                            ELSE <<>>,
     validated |-> Validates(j)]

translate_to_schema(j) ==
    [title |-> j.job_name,
     identifier |-> AfterLast(j.job_link, "/"),
     url |-> j.job_link]

\* ------------------------------------------------- translating a record
\* Description texts: up to MaxPhrases phrases joined by spaces.
Texts ==
    LET Phrases ==
            {<<"R", "e", "m", "o", "t", "e">>, <<"w", "f", "h">>, <<"w", "o", "r", "k", " ", "f", "r", "o", "m", " ", "h", "o", "m", "e">>, <<"H", "y", "b", "r", "i", "d">>, <<"o", "n", "s", "i", "t", "e">>,
             <<"N", "o", " ", "t", "r", "a", "v", "e", "l">>, <<"T", "r", "a", "v", "e", "l", " ", "r", "e", "q", "u", "i", "r", "e", "d">>, <<"w", "i", "l", "l", "i", "n", "g", "n", "e", "s", "s", " ", "t", "o", " ", "t", "r", "a", "v", "e", "l">>,
             <<"2", "5", "%", " ", "t", "r", "a", "v", "e", "l">>, <<"5", "%", " ", " ", "T", "r", "a", "v", "e", "l", "i", "n", "g">>, <<"%", " ", "t", "r", "a", "v", "e", "l">>, <<"t", "e", "a", "m">>}
    IN {Join(ps, <<" ">>) : ps \in UNION {[1..n -> Phrases] : n \in 0..MaxPhrases}}

\* Raw field values: up to MaxChunks pieces of markup, as a str, wrapped in
\* a dict, and as the JSON text of the dict.
FieldValues ==
    LET Chunks == {<<"&", "a", "m", "p", ";">>, <<"a", "m", "p", ";">>, <<"<", "b", ">">>,
                   <<"<">>, <<">">>, <<"a">>, <<"a", ">">>, <<" ">>}
        Markup == {Join(cs, <<>>) : cs \in UNION {[1..n -> Chunks] : n \in 0..MaxChunks}}
    IN {Value(kind, m) : kind \in {"str", "dict", "json"}, m \in Markup}

JobRecords ==
    LET Link == <<"h", "/", "j", "o", "b", "s", "/", "1", "2">>
        JobLinks == {Link, <<"h", "/", "j", "o", "b", "s", "/", "1", "2", "?", "r", "=", "1">>, <<"h", "/", "j", "o", "b", "s", "/", "1", "2", "?", "r", "=", "a", "/", "b">>, <<"h", "/", "j", "o", "b", "s", "/", "1", "2", "/">>, <<>>}
        JobIds == {<<>>, <<"R", "7">>, <<"A", "/", "7">>, <<"R", "?", "7">>}
        LinkValues ==
            {Value("str", <<>>), Value("str", <<"u", ",", " ", "v">>), Value("str", <<"u", ",", ",", "v", " ", ",", " ">>),
             Value("list", <<>>), Value("list", <<<<"u">>, <<"v">>>>)}
    IN {JobRecord(<<>>, Link, GoodTitle, t, Value("str", <<>>)) : t \in Texts}
       \cup {JobRecord(id, l, n, <<>>, Value("str", <<>>)) :
                 id \in JobIds, l \in JobLinks, n \in {GoodTitle, NullName}}
       \cup {JobRecord(<<>>, Link, GoodTitle, <<>>, ls) : ls \in LinkValues}

InitTranslate ==
    /\ \/ job \in JobRecords /\ field = Value("str", <<>>)
       \/ /\ job = JobRecord(<<>>, <<>>, GoodTitle, <<>>, Value("str", <<>>))
          /\ field \in FieldValues
    /\ rag = <<>>
    /\ ident = <<>>
    /\ detected = <<>>
    /\ cleaned = <<>>
    /\ max_pages = NoMaxPages
    /\ scraper = NoScraper
    /\ exitStatus = NotExited
    /\ probe = NoProbe
    /\ total = 0
    /\ dPc = "idle"
    /\ cursor = 0
    /\ all_links = <<>>
    /\ stream = <<>>
    /\ last_height = 0
    /\ now = 0
    /\ files = <<>>
    /\ dataDir = FALSE
    /\ output_data = <<>>
    /\ savePc = "idle"
    /\ runs = 0
    /\ portal = "google"
    /\ concurrency = MaxConcurrency
    /\ semaphore = concurrency
    /\ runPc = "main"
    /\ discPage = "none"
    /\ idxPc = <<>>
    /\ job_links = <<>>
    /\ taskPc = <<>> /\ pageOpen = <<>> /\ attempts = <<>> /\ fails = <<>>
    /\ delays = <<>> /\ data = <<>> /\ result = <<>>
    /\ outOfOrder = FALSE
    /\ jobs = <<>>
    /\ saved = FALSE

TranslateRag ==
    /\ rag = <<>>
    /\ rag' = <<translate_to_rag_schema(job)>>
    /\ UNCHANGED <<job, ident, detected, field, cleaned>>
    /\ UNCHANGED <<mainVars, listVars, fileVars, portal, concurrency,
                   semaphore, runPc, discPage, idxPc, job_links, detailVars, jobs, saved>>

TranslateSchema ==
    /\ ident = <<>>
    /\ ident' = <<translate_to_schema(job)>>
    /\ UNCHANGED <<job, rag, detected, field, cleaned>>
    /\ UNCHANGED <<mainVars, listVars, fileVars, portal, concurrency,
                   semaphore, runPc, discPage, idxPc, job_links, detailVars, jobs, saved>>

Detect ==
    /\ detected = <<>>
    /\ detected' = <<[work_mode |-> detect_work_mode(job.job_description),
                      travel_requirement |-> detect_travel(job.job_description)]>>
    /\ UNCHANGED <<job, rag, ident, field, cleaned>>
    /\ UNCHANGED <<mainVars, listVars, fileVars, portal, concurrency,
                   semaphore, runPc, discPage, idxPc, job_links, detailVars, jobs, saved>>

\* clean_html_field on the raw field, then on its own result.
Clean ==
    /\ Len(cleaned) < 2
    /\ cleaned' = Append(cleaned,
                         clean_html_field(IF cleaned = <<>>
                                            THEN field
                                            ELSE Value("str", cleaned[Len(cleaned)])))
    /\ UNCHANGED <<job, rag, ident, detected, field>>
    /\ UNCHANGED <<mainVars, listVars, fileVars, portal, concurrency,
                   semaphore, runPc, discPage, idxPc, job_links, detailVars, jobs, saved>>

NextTranslate == TranslateRag \/ TranslateSchema \/ Detect \/ Clean

SpecTranslate == InitTranslate /\ [][NextTranslate]_vars

\* ------------------------------------------------------------ persistence
\* The save functions of BaseJobScraper and transform_latest_data, over
\* successive processes that share the data/ directory.
SavePortals == {"google", "nvidia"}

\* Connectors whose run() also calls save_to_json_schema.
HasJsonSchema(p) == p \in {"amazon", "nvidia", "apple"}

\* datetime.now().strftime("%H%M_%d-%b-%Y"): the clock cut to the minute.
Stamp(t) == t \div 60
TickSeconds == 30

\* f"data/{portal_name}_{kind}_{timestamp}..."
Filename(portal_name, kind, t) == <<portal_name, kind, Stamp(t)>>

\* A save call ends normally, raises before the file is opened (translation,
\* building the envelope) or raises in json.dump after open(filename, 'w')
\* has created or truncated the file.
SaveOutcomes == {"ok", "fault_before_open", "fault_in_write"}

\* Content of the file after `with open(...) as f: json.dump(..., f)`.
WriteState(outcome) == IF outcome = "ok" THEN "complete" ELSE "partial"

\* open(name, 'w') and the write: an existing file of that name is replaced.
WriteFile(fs, name, st) ==
    [n \in DOMAIN fs \cup {name} |->
       IF n = name
         THEN [content |-> st,
               writes |-> (IF name \in DOMAIN fs THEN fs[name].writes ELSE 0) + 1]
         ELSE fs[n]]

\* One JSON save of `kind` under the given outcome.
SaveJson(fs, portal_name, kind, t, outcome) ==
    IF outcome = "fault_before_open" THEN fs
    ELSE WriteFile(fs, Filename(portal_name, kind, t), WriteState(outcome))

\* df.to_excel(.xlsx); df.to_excel(.ods, engine='odf'); df.to_csv(.csv):
\* the first k of them are written, the next one raises.
FormatKinds == <<"jobs.xlsx", "jobs.ods", "jobs.csv">>

RECURSIVE WriteFormats(_, _, _, _)
WriteFormats(fs, portal_name, t, k) ==
    IF k = 0 THEN fs
    ELSE WriteFile(WriteFormats(fs, portal_name, t, k - 1),
                   Filename(portal_name, FormatKinds[k], t), "complete")

\* The run reached its save step / the transform script was started.
InitSave ==
    /\ InitText
    /\ now = 0
    /\ files = <<>>
    /\ dataDir = FALSE
    /\ output_data = <<>>
    /\ savePc = "idle"
    /\ runs = 0
    /\ portal \in SavePortals
    /\ max_pages = NoMaxPages
    /\ scraper = NoScraper
    /\ exitStatus = NotExited
    /\ concurrency = MaxConcurrency
    /\ semaphore = concurrency
    /\ runPc = "main"
    /\ discPage = "none"
    /\ probe = NoProbe
    /\ total = 0
    /\ dPc = "idle"
    /\ cursor = 0
    /\ all_links = <<>>
    /\ stream = <<>>
    /\ last_height = 0
    /\ idxPc = <<>>
    /\ job_links = <<>>
    /\ taskPc = <<>> /\ pageOpen = <<>> /\ attempts = <<>> /\ fails = <<>>
    /\ delays = <<>> /\ data = <<>> /\ result = <<>>
    /\ outOfOrder = FALSE
    /\ jobs = <<>>
    /\ saved = FALSE

scrapeVars == <<mainVars, listVars, textVars, concurrency, semaphore, runPc, discPage, idxPc,
                job_links, detailVars, saved>>

\* Record lists a run can have gathered, of a record that validates and
\* one whose job_name is None.
SavedJobs ==
    LET GoodRecord == JobRecord(<<>>, <<"h", "/", "j", "o", "b", "s", "/", "1", "2">>, GoodTitle, <<>>, Value("str", <<>>))
        BadRecord == JobRecord(<<>>, <<"h", "/", "j", "o", "b", "s", "/", "1", "3">>, NullName, <<>>, Value("str", <<>>))
    IN {<<>>, <<GoodRecord>>, <<BadRecord>>, <<GoodRecord, BadRecord>>,
        <<BadRecord, GoodRecord>>}

\* `not self.jobs`
\* (variant: the test never succeeds)
NoJobs_mut(js) == FALSE

NoJobs(js) == js = <<>>

\* [self.translate_to_rag_schema(job) for job in self.jobs]
\* (variant: an entry that fails validation is left out)
RECURSIVE rag_jobs_mut(_)
rag_jobs_mut(js) ==
    IF js = <<>> THEN <<>>
    ELSE (IF Validates(Head(js)) THEN <<translate_to_rag_schema(Head(js))>> ELSE <<>>)
         \o rag_jobs_mut(Tail(js))

rag_jobs(js) == [i \in 1..Len(js) |-> translate_to_rag_schema(js[i])]

\* Time passes.
Tick ==
    /\ now < MaxTicks * TickSeconds
    /\ now' = now + TickSeconds
    /\ UNCHANGED <<files, dataDir, output_data, savePc, runs, portal, jobs, scrapeVars>>

\* A scraper process has gathered self.jobs (possibly none) and starts its
\* final save.
StartSave ==
    /\ savePc = "idle"
    /\ runs < MaxRuns
    /\ runs' = runs + 1
    /\ portal' \in SavePortals
    /\ jobs' \in SavedJobs
    /\ output_data' = <<>>
    /\ savePc' = "formats"
    /\ UNCHANGED <<now, files, dataDir, scrapeVars>>

\* python transform_to_rag.py
StartTransform ==
    /\ savePc = "idle"
    /\ runs < MaxRuns
    /\ runs' = runs + 1
    /\ savePc' = "transform"
    /\ UNCHANGED <<now, files, dataDir, output_data, portal, jobs, scrapeVars>>

AfterFormats(p) == IF HasJsonSchema(p) THEN "schema" ELSE "rag"

\* self.save_to_formats(portal): returns at once without jobs; an exception
\* leaves run() (no later save).
SaveFormats ==
    /\ savePc = "formats"
    /\ IF NoJobs(jobs)
         THEN /\ savePc' = AfterFormats(portal)
              /\ UNCHANGED <<files, dataDir>>
         ELSE \E k \in 0..3 :
                /\ dataDir' = TRUE
                /\ files' = WriteFormats(files, portal, now, k)
                /\ savePc' = IF k = 3 THEN AfterFormats(portal) ELSE "idle"
    /\ UNCHANGED <<now, output_data, runs, portal, jobs, scrapeVars>>

\* self.save_to_json_schema(...); os.makedirs("data", exist_ok=True) is
\* reached unless the fault came before it.
SaveJsonSchema ==
    /\ savePc = "schema"
    /\ IF NoJobs(jobs)
         THEN /\ savePc' = "rag"
              /\ UNCHANGED <<files, dataDir>>
         ELSE \E outcome \in SaveOutcomes :
                /\ dataDir' \in (IF outcome = "fault_before_open" THEN {dataDir, TRUE} ELSE {TRUE})
                /\ files' = SaveJson(files, portal, "schema.json", now, outcome)
                /\ savePc' = IF outcome = "ok" THEN "rag" ELSE "idle"
    /\ UNCHANGED <<now, output_data, runs, portal, jobs, scrapeVars>>

\* self.save_to_rag_json(...); the run ends after it.  The envelope is
\* output_dict, or its ScraperRunBatch dump when the batch validates: the
\* data is the same list either way.
SaveRagJson ==
    /\ savePc = "rag"
    /\ IF NoJobs(jobs)
         THEN UNCHANGED <<files, dataDir, output_data>>
         ELSE \E outcome \in SaveOutcomes :
                /\ dataDir' \in (IF outcome = "fault_before_open" THEN {dataDir, TRUE} ELSE {TRUE})
                /\ files' = SaveJson(files, portal, "rag.json", now, outcome)
                /\ output_data' = IF outcome = "fault_before_open"
                                    THEN output_data
                                    ELSE LET entries == rag_jobs(jobs)
                                         IN <<[status |-> "completed",
                                               data |-> entries,
                                               validated |->
                                                 \A i \in DOMAIN entries :
                                                   entries[i].validated]>>
    /\ savePc' = "idle"
    /\ UNCHANGED <<now, runs, portal, jobs, scrapeVars>>

\* transform_latest_data: for every company with a jobs CSV in data/, write
\* data/{portal}_rag_{timestamp}.json; an exception is caught per company.
HasCsv(fs, p) == \E n \in DOMAIN fs : n[1] = p /\ n[2] = "jobs.csv"

TransformOne(fs, p, t, outcome) ==
    IF HasCsv(fs, p) THEN SaveJson(fs, p, "rag.json", t, outcome) ELSE fs

TransformLatest ==
    /\ savePc = "transform"
    /\ \E o1, o2 \in SaveOutcomes :
         files' = TransformOne(TransformOne(files, "nvidia", now, o1), "google", now, o2)
    /\ savePc' = "idle"
    /\ UNCHANGED <<now, dataDir, output_data, runs, portal, jobs, scrapeVars>>

NextSave ==
    \/ Tick
    \/ StartSave
    \/ StartTransform
    \/ SaveFormats
    \/ SaveJsonSchema
    \/ SaveRagJson
    \/ TransformLatest

SpecSave == InitSave /\ [][NextSave]_vars

\* ------------------------------------------------------------ type check
TypeOK ==
    /\ max_pages.given \in BOOLEAN /\ max_pages.value \in Int
    /\ scraper \in DiscoveryPortals \cup {NoScraper}
    /\ exitStatus \in {NotExited, 0, 1}
    /\ probe \in ProbeKinds \cup {NoProbe}
    /\ total \in Nat /\ cursor \in Nat
    /\ dPc \in {"idle", "probe", "scroll", "loop", "returned", "raised"}
    /\ last_height \in 0..MaxHeight + 1
    /\ \A k \in 1..Len(stream) : stream[k].fault \in BOOLEAN
    /\ now \in Nat /\ runs \in Nat
    /\ savePc \in {"idle", "formats", "schema", "rag", "transform"}
    /\ \A n \in DOMAIN files : files[n].content \in {"partial", "complete"}
    /\ dataDir \in BOOLEAN
    /\ Len(output_data) <= 1
    /\ Len(rag) <= 1 /\ Len(ident) <= 1 /\ Len(detected) <= 1 /\ Len(cleaned) <= 2
    /\ field.kind \in {"str", "dict", "json"}
    /\ job.additional_links.kind \in {"str", "list"}
    /\ portal \in DiscoveryPortals
    /\ concurrency \in 1..MaxConcurrency + 1
    /\ semaphore \in Int
    /\ runPc \in {"main", "exited", "start", "index", "discover", "detail", "saved", "closed", "aborted"}
    /\ discPage \in {"none", "open", "closed"}
    /\ \A i \in IndexTasks : idxPc[i] \in {"wait", "held", "open", "done", "raised", "cancelled"}
    /\ \A t \in Tasks :
         /\ taskPc[t] \in {"wait", "held", "fetch", "sleep", "closing", "done", "raised", "cancelled"}
         /\ attempts[t] \in Nat /\ fails[t] \in Nat /\ delays[t] \in Nat
         /\ pageOpen[t] \in BOOLEAN


\* ------------------------------------------------------ derived quantities
\* Tasks (of either phase) that have acquired a slot and not released it.
SlotHolders == {t \in Tasks : HoldsSlot(taskPc[t])}

AllFinished ==
    /\ \A t \in Tasks : Finished(taskPc[t])
    /\ \A i \in IndexTasks : idxPc[i] \in {"done", "raised", "cancelled"}

Aggregated == runPc \in {"saved", "closed"}

\* Position of a link in the dispatch list.
LinkPos(l) == CHOOSE i \in 1..Len(job_links) : job_links[i] = l

\* How many records of self.jobs carry the link.
Occurrences(l) == Cardinality({i \in 1..Len(jobs) : jobs[i].job_link = l})

\* A title that is present and not a placeholder.
Usable(title) == title # NoElem /\ title # "" /\ title # GenericTitle

\* First usable title in the priority order: embedded data, rendered
\* content, job-schema block; NoElem when no strategy yields one.
FirstUsable(pg) ==
    IF Usable(pg.struct) THEN pg.struct
    ELSE IF Usable(pg.dom) THEN pg.dom
    ELSE IF Usable(pg.ld) THEN pg.ld
    ELSE NoElem

\* ------------------------------------------------------------------ C1
\* C1: at every instant the number of tasks that hold a limiter slot
\* (acquired, not yet released) is at most the limiter capacity K.
C1_AtMostKHolders ==
    Cardinality(SlotHolders)
      + Cardinality({i \in IndexTasks : idxPc[i] \in {"held", "open"}}) <= concurrency

\* All K slots are taken while another dispatched task is still waiting.
C1_Witness ==
    /\ runPc = "detail"
    /\ Cardinality(SlotHolders) = concurrency
    /\ \E t \in Tasks : taskPc[t] = "wait"

\* ------------------------------------------------------------------ C2
\* C2: after the detail phase self.jobs is exactly the non-absent results
\* in dispatch order: as many records as non-absent results, ordered by the
\* position of their link in the dispatch list, each one the result of the
\* task of its link, whatever order the tasks completed in.
C2_DispatchOrder ==
    Aggregated =>
      /\ Len(jobs) = Cardinality({t \in Tasks : result[t] # Absent})
      /\ \A i \in 1..Len(jobs) : \A j \in 1..Len(jobs) :
           i < j => LinkPos(jobs[i].job_link) < LinkPos(jobs[j].job_link)
      /\ \A i \in 1..Len(jobs) : jobs[i] = result[LinkPos(jobs[i].job_link)]

\* Tasks completed out of dispatch order and at least two records were
\* aggregated.
C2_Witness ==
    /\ runPc = "saved"
    /\ outOfOrder
    /\ Len(jobs) >= 2

\* ------------------------------------------------------------------ C3
\* C3: a failure on one detail page, a failure to open or to close the
\* task's page included, never raises out of the detail task (so the run
\* still aggregates and saves).
C3_TaskNeverRaises == \A t \in Tasks : taskPc[t] # "raised"

\* ------------------------------------------------------------------ C4
\* C4: every task releases its slot on every exit path, so once all
\* dispatched tasks have finished all K permits are free again.
C4_AllPermitsFree == AllFinished => semaphore = concurrency

\* Every task has ended, one by returning and one by an exception.
C4_Witness ==
    /\ AllFinished
    /\ \E t \in Tasks : taskPc[t] = "raised"
    /\ \E t \in Tasks : taskPc[t] = "done"
    /\ semaphore = concurrency

\* ------------------------------------------------------------------ C5
\* C5: a page opened by a detail task is closed on every exit path and
\* before the slot is released: a page is open only while its task holds a
\* slot, and no finished task has left its page open.
C5_PageClosedOnEveryExit ==
    \A t \in Tasks :
      /\ Finished(taskPc[t]) => ~pageOpen[t]
      /\ pageOpen[t] => HoldsSlot(taskPc[t])

\* ------------------------------------------------------------------ C6
\* C6: at every instant of the run the number of open browser pages,
\* the discovery pages included, is at most the configured limit K.
C6_OpenPagesAtMostK ==
    (IF discPage = "open" THEN 1 ELSE 0)
      + Cardinality({i \in IndexTasks : idxPc[i] = "open"})
      + Cardinality({t \in Tasks : pageOpen[t]}) <= concurrency

\* ------------------------------------------------------------------ C7
\* C7: NVIDIA, maximum of 3 attempts: a fetch whose first two attempts fail
\* and whose third succeeds returns the record, the record is in self.jobs
\* exactly once, and no task ever makes a fourth attempt.
C7_ThirdAttemptAccepted ==
    portal = "nvidia" =>
      \A t \in Tasks :
        /\ attempts[t] <= 3
        /\ (taskPc[t] \in {"closing", "done"} /\ attempts[t] = 3 /\ fails[t] = 2)
             => result[t].kind = "job"
        /\ (Aggregated /\ attempts[t] = 3 /\ fails[t] = 2)
             => Occurrences(job_links[t]) = 1

C7_Witness ==
    /\ portal = "nvidia"
    /\ runPc = "saved"
    /\ \E t \in Tasks :
         /\ attempts[t] = 3 /\ fails[t] = 2 /\ delays[t] = 2
         /\ Occurrences(job_links[t]) = 1
         /\ result[t].job_name = GoodTitle


\* ------------------------------------------------------------------ C8
\* C8: a detail fetch never makes more attempts than the connector's
\* maximum (3 for NVIDIA, 2 for Apple); a delay is taken only between two
\* attempts, never after the last one; when every attempt has failed the
\* fetch returns absent, and an absent link has no record in self.jobs.
C8_MaxAttempts == IF portal = "nvidia" THEN 3 ELSE IF portal = "apple" THEN 2 ELSE 1

C8_BoundedRetries ==
    \A t \in Tasks :
      /\ attempts[t] <= C8_MaxAttempts
      /\ taskPc[t] = "sleep" => attempts[t] < C8_MaxAttempts /\ delays[t] = attempts[t]
      /\ taskPc[t] \in {"closing", "done"} => delays[t] = attempts[t] - 1
      /\ (taskPc[t] \in {"closing", "done"} /\ fails[t] = attempts[t])
           => result[t] = Absent
      /\ (Aggregated /\ result[t] = Absent) => Occurrences(job_links[t]) = 0

\* Apple: both attempts of one link failed, one delay was taken, the link is
\* dropped and the run saved the record of another link.
C8_Witness ==
    /\ portal = "apple"
    /\ runPc = "saved"
    /\ \E t \in Tasks :
         /\ attempts[t] = 2 /\ fails[t] = 2 /\ delays[t] = 1
         /\ result[t] = Absent
         /\ Occurrences(job_links[t]) = 0
    /\ Len(jobs) >= 1

\* ------------------------------------------------------------------ C9
\* C9: in every connector every accepted record has a job_name that is
\* non-empty and not a generic placeholder.
C9_AcceptedTitlesUsable ==
    /\ \A t \in Tasks : result[t].kind = "job" => Usable(result[t].job_name)
    /\ \A i \in 1..Len(jobs) : Usable(jobs[i].job_name)

\* ------------------------------------------------------------------ C10
\* C10: for each fetched detail page the three strategies are tried in
\* priority order, the first usable title is the one returned, and the page
\* is returned absent only when none of the three yields a usable title.
C10_AbsentOnlyAfterAllStrategies ==
    \A t \in Tasks :
      (taskPc[t] = "closing" /\ data[t] # NoPage /\ ~data[t].fault) =>
        IF FirstUsable(data[t]) = NoElem
          THEN result[t] = Absent
          ELSE result[t] = Record(job_links[t], FirstUsable(data[t]))

\* ------------------------------------------------------------------ C11
\* C11: when the command is invoked with max_pages <= 0 the process exits
\* with a non-zero status, and before that exit no connector is constructed
\* and no browser page is opened, no listing or detail task is created.
C11_ConfigErrorExits ==
    (max_pages.given /\ max_pages.value <= 0) =>
      /\ runPc \in {"main", "exited"}
      /\ runPc = "exited" => exitStatus # NotExited /\ exitStatus # 0
      /\ scraper = NoScraper
      /\ discPage = "none"
      /\ Tasks = {} /\ IndexTasks = {}
      /\ semaphore = concurrency

\* The run was started with --max_pages 0 and has exited with status 1.
C11_Witness ==
    /\ max_pages = MaxPages(0)
    /\ runPc = "exited"
    /\ exitStatus = 1

\* ------------------------------------------- derived: the listing stream
\* The items of the pages that loaded, in the order they were fetched.
RECURSIVE Flatten(_)
Flatten(pages) ==
    IF pages = <<>> THEN <<>>
    ELSE (IF Head(pages).fault THEN <<>> ELSE Head(pages).items) \o Flatten(Tail(pages))

\* Position of the first occurrence of x in the stream.
FirstOcc(x) ==
    LET flat == Flatten(stream)
    IN CHOOSE k \in 1..Len(flat) : flat[k] = x /\ \A m \in 1..(k - 1) : flat[m] # x

\* Links of the k-th fetched page that no earlier page carried.
NewItems(k) ==
    Range(stream[k].items) \ UNION {Range(stream[m].items) : m \in 1..(k - 1)}

NoDuplicates(q) == \A i, j \in 1..Len(q) : i # j => q[i] # q[j]

ReturnsLinks == dPc = "returned" /\ portal # "amazon"

\* ------------------------------------------------------------------ C12
\* C12: with a page cap max_pages = n > 0 the pagination loop of every
\* connector fetches at most n listing pages, whatever total the site
\* reports and however many items each page returns.
C12_AtMostCapPages ==
    (max_pages.given /\ max_pages.value > 0) => Len(stream) <= max_pages.value

\* ------------------------------------------------------------------ C13
\* C13 (as claimed): the sequence every connector's discovery returns has
\* no duplicates and is in first-seen order: a precedes b in the result
\* exactly when a's first occurrence in the listing stream precedes b's.
C13_FirstSeenOrder ==
    ReturnsLinks =>
      /\ NoDuplicates(all_links)
      /\ \A i, j \in 1..Len(all_links) :
           i < j <=> FirstOcc(all_links[i]) < FirstOcc(all_links[j])

\* C13 (amended): the returned sequence has no duplicates in every
\* connector; it is in first-seen order in every connector except OpenAI,
\* whose sequence is in ascending order of the links.
C13_DedupFirstSeenOrSorted ==
    ReturnsLinks =>
      /\ NoDuplicates(all_links)
      /\ \A x \in Range(all_links) : \E k \in 1..Len(stream) :
           ~stream[k].fault /\ x \in Range(stream[k].items)
      /\ \A i, j \in 1..Len(all_links) :
           i < j <=> IF portal = "openai"
                       THEN all_links[i] < all_links[j]
                       ELSE FirstOcc(all_links[i]) < FirstOcc(all_links[j])

\* Google returned links of two pages that loaded, the second page
\* repeating a link of the first.
C13_Witness ==
    /\ portal = "google"
    /\ dPc = "returned"
    /\ Len(all_links) >= 2
    /\ \E k \in 2..Len(stream) :
         /\ ~stream[k].fault /\ stream[k].items # <<>>
         /\ NewItems(k) # Range(stream[k].items)

\* ------------------------------------------------------------------ C14
\* C14: in the record list of any run no two records have the same
\* job_link, also in a connector that appends records from the listing
\* responses.
C14_UniqueJobLinks ==
    \A i, j \in 1..Len(jobs) : i # j => jobs[i].job_link # jobs[j].job_link

\* ------------------------------------------------------------------ C15
\* C15: discovery stops as soon as a fetched listing page contributes zero
\* links that were not already collected (an empty page, the first one
\* included, or a page of duplicates): no listing page is fetched after it.
C15_StopsOnNoNewLinks ==
    \A k \in 1..(Len(stream) - 1) : ~stream[k].fault => NewItems(k) # {}

\* ------------------------------------------------------------------ C16
\* C16: when a listing page fails to load or parse, discovery goes on to the
\* next listing page: it does not return after a failed page while the loop
\* still has a page to fetch, and it keeps the links collected before.
C16_ContinuesAfterFault ==
    (dPc = "returned" /\ stream # <<>> /\ stream[Len(stream)].fault) =>
      /\ ~Continues(portal,
                    IF portal \in {"nvidia", "netflix"} THEN cursor + 10 ELSE cursor,
                    LoopLimit(portal, total, max_pages))
      /\ portal # "openai" =>
           \A k \in 1..Len(stream) :
             Range(stream[k].items) \subseteq Range(all_links)

\* ------------------------------------------------------------------ C17
\* C17: when the first-page probe of the total fails (navigation fault,
\* count missing or unparsable) discovery does not abort the run: it goes on
\* with a default total and still fetches listing pages.
C17_ProbeFailureFallsBack ==
    (HasProbe(portal) /\ dPc \in {"loop", "returned", "raised"}
       /\ (probe.navfault \/ probe.count = Missing)) =>
      /\ dPc # "raised"
      /\ dPc = "returned" => stream # <<>>

\* ------------------------------------------------------------------ C18
\* C18: every dispatched detail task acquires a slot and runs to its own
\* success or retry exhaustion; no dispatched task is cancelled or
\* abandoned, also when another task fails, and the run leaves the detail
\* phase only after all of them have finished.  (A task counts as finished
\* here when it returned or raised by itself.)
C18_AllTasksRunToCompletion ==
    /\ \A t \in Tasks : taskPc[t] # "cancelled"
    /\ (Tasks # {} /\ runPc \in {"saved", "closed", "aborted"}) =>
         \A t \in Tasks : taskPc[t] \in {"done", "raised"}

\* ------------------------------------------------------------------ C19
\* C19: each output envelope file ({startTime, endTime, status, companyName,
\* websiteName, data}) is either absent or complete: a fault raised during
\* translation, serialization or writing never leaves a partially written
\* output file on disk.
C19_NoPartialEnvelope ==
    \A n \in DOMAIN files :
      n[2] \in {"schema.json", "rag.json"} => files[n].content = "complete"

\* ------------------------------------------------------------------ C20
\* C20: no save writes to a filename that an earlier save, of the same or an
\* earlier run, has already written: no earlier output is overwritten.
C20_NoOverwrite == \A n \in DOMAIN files : files[n].writes <= 1

\* ------------------------------------------------------------------ C21
\* C21: a derived record that fails validation is emitted unvalidated, not
\* discarded: the data of the written envelope has exactly one entry per
\* record of self.jobs, in the same order, whether or not an entry or the
\* batch fails validation.
C21_OneEntryPerRecord ==
    \A e \in DOMAIN output_data :
        /\ Len(output_data[e].data) = Len(jobs)
        /\ \A i \in 1..Len(jobs) :
             /\ output_data[e].data[i].job_link = jobs[i].job_link
             /\ output_data[e].data[i].job_title = jobs[i].job_name

\* An envelope of two records, the first of them failing validation, was
\* written completely.
C21_Witness ==
    /\ output_data # <<>>
    /\ Len(jobs) = 2
    /\ ~output_data[1].data[1].validated
    /\ ~output_data[1].validated
    /\ \E n \in DOMAIN files : n[2] = "rag.json" /\ files[n].content = "complete"

\* ---------------------------------------------------- derived records
\* C22: work_mode over the lower-cased text: when the text contains
\* "remote", "work from home" or "wfh" it is "hybrid" if "hybrid" occurs
\* too and "remote" otherwise; else "hybrid" if "hybrid" occurs; else
\* "onsite"; it is always one of the three.
C22_WorkModePrecedence ==
    LET Expected(text) ==
            LET remote == \/ Contains(Lower(text), <<"r", "e", "m", "o", "t", "e">>)
                          \/ Contains(Lower(text), <<"w", "o", "r", "k", " ", "f", "r", "o", "m", " ", "h", "o", "m", "e">>)
                          \/ Contains(Lower(text), <<"w", "f", "h">>)
                hybrid == Contains(Lower(text), <<"h", "y", "b", "r", "i", "d">>)
            IN CASE remote /\ hybrid -> "hybrid"
                 [] remote /\ ~hybrid -> "remote"
                 [] ~remote /\ hybrid -> "hybrid"
                 [] OTHER -> "onsite"
    IN /\ \A i \in DOMAIN rag :
            /\ rag[i].work_mode = Expected(full_text(job))
            /\ rag[i].work_mode \in {"remote", "hybrid", "onsite"}
       /\ \A i \in DOMAIN detected :
            /\ detected[i].work_mode = Expected(job.job_description)
            /\ detected[i].work_mode \in {"remote", "hybrid", "onsite"}

\* A text with both a remote phrase and "hybrid" was classified.
C22_Witness ==
    /\ rag # <<>> /\ detected # <<>>
    /\ Contains(Lower(job.job_description), <<"w", "f", "h">>)
    /\ Contains(Lower(job.job_description), <<"h", "y", "b", "r", "i", "d">>)
    /\ rag[1].work_mode = "hybrid"

\* C23: travel_requirement of any text: the first case-insensitive match of
\* a percentage followed by travel/traveling, verbatim; else "No travel"
\* for a "no travel" phrase; else "Travel required" for "travel required"
\* or "willingness to travel"; else, the empty text included,
\* "Not specified".
C23_TravelOrder ==
    LET Expected(text, r) ==
            LET t == Lower(text)
            IN IF \E i \in 1..Len(text) : TravelMatchAt(text, i)
                 THEN \E i \in 1..Len(text) :
                        /\ TravelMatchAt(text, i)
                        /\ \A m \in 1..(i - 1) : ~TravelMatchAt(text, m)
                        /\ StartsWithAt(text, r, i)
                        /\ StartsWithAt(Lower(r), <<"t", "r", "a", "v", "e", "l">>, Len(r) - 5)
               ELSE IF Contains(t, <<"n", "o", " ", "t", "r", "a", "v", "e", "l">>) THEN r = <<"N", "o", " ", "t", "r", "a", "v", "e", "l">>
               ELSE IF Contains(t, <<"t", "r", "a", "v", "e", "l", " ", "r", "e", "q", "u", "i", "r", "e", "d">>)
                         \/ Contains(t, <<"w", "i", "l", "l", "i", "n", "g", "n", "e", "s", "s", " ", "t", "o", " ", "t", "r", "a", "v", "e", "l">>)
                 THEN r = <<"T", "r", "a", "v", "e", "l", " ", "r", "e", "q", "u", "i", "r", "e", "d">>
               ELSE r = <<"N", "o", "t", " ", "s", "p", "e", "c", "i", "f", "i", "e", "d">>
    IN /\ \A i \in DOMAIN rag :
            Expected(full_text(job), rag[i].travel_requirement)
       /\ \A i \in DOMAIN detected :
            Expected(job.job_description, detected[i].travel_requirement)

\* C24: additional_links of a record: the trimmed non-empty comma parts of
\* a string value; a list value unchanged.
C24_AdditionalLinks ==
    \A i \in DOMAIN rag :
        rag[i].additional_links =
            IF job.additional_links.kind = "str"
              THEN StripAll(SplitComma(job.additional_links.v))
              ELSE job.additional_links.v

\* C25: metadata.job_id is the explicit job_id when there is one, else the
\* trailing path segment of job_link without its query string.
C25_JobId ==
    \A i \in DOMAIN rag :
        rag[i].job_id =
            IF job.job_id # <<>>
              THEN job.job_id
              ELSE AfterLast(BeforeFirst(job.job_link, "?"), "/")

\* C26: the identifier value of the interchange-schema translation equals
\* the job_id of the RAG translation of the same record.
C26_IdentifierIsJobId ==
    \A i \in DOMAIN rag : \A k \in DOMAIN ident :
        ident[k].identifier = rag[i].job_id

\* C27: cleaning is idempotent: cleaning the result of cleaning a value
\* gives that result again.
C27_CleanIdempotent ==
    Len(cleaned) = 2 => cleaned[2] = cleaned[1]

\* ------------------------------------------------------------------ C30
\* C30: while the record list is empty, no save operation creates or
\* modifies a file or the data directory.
C30_EmptySaveWritesNothing ==
    [][(jobs = <<>> /\ savePc \in {"formats", "schema", "rag"})
          => (files' = files /\ dataDir' = dataDir)]_vars

\* The saves of a run without records have gone by and nothing exists.
C30_Witness ==
    /\ savePc = "rag"
    /\ jobs = <<>>
    /\ files = <<>>
    /\ ~dataDir

\* ------------------------------------------------------------------ C28
\* C28: the discovery phase of every connector terminates after finitely
\* many listing fetches or scroll steps, whatever the site answers, with or
\* without a page cap.
C28_DiscoveryTerminates == <>(dPc \in {"returned", "raised"})

\* ------------------------------------------------------------------ C29
\* C29: a run called directly with max_pages = 0 behaves exactly like a run
\* without a cap: every step of the one is a step of the other (same
\* listing pages fetched, same links handed to dispatch).
C29_ZeroCapIsNoCap ==
    [][/\ max_pages = MaxPages(0) => NextDiscoveryWith(NoMaxPages)
       /\ max_pages = NoMaxPages => NextDiscoveryWith(MaxPages(0))]_vars

\* A run with the cap 0 fetched several listing pages and returned links.
C29_Witness ==
    /\ max_pages = MaxPages(0)
    /\ dPc = "returned"
    /\ Len(stream) >= 2
    /\ all_links # <<>>

====
